---- MODULE Spec2Model ----
(***************************************************************************)
(* gitreach: the dependent-discovery-and-outreach pipeline.                *)
(*                                                                         *)
(* Two programs share the pipeline: src/app.py streams its progress as     *)
(* newline-delimited JSON events from the generator generate_email_stream, *)
(* and src/main.py is the command-line variant (main).  The variable       *)
(* `variant` says which of the two a behaviour runs.                       *)
(*                                                                         *)
(* A Python string is a sequence of tokens (each token an atomic chunk of  *)
(* characters), so that split, `in`, endswith and concatenation are        *)
(* computed and not assumed.  Python's None is the reserved one-token      *)
(* sequence None.  A JSON object is a record with the object's keys.       *)
(***************************************************************************)
EXTENDS Integers, Sequences, FiniteSets, TLC

VARIABLES
    variant,         \* "app" (src/app.py) or "cli" (src/main.py)
    secrets,         \* the set of the three environment secrets that are set
    target_repo,     \* app: the argument of generate_email_stream; cli: TARGET_REPO
    pc,              \* where the generator is suspended / where main() is
    file,            \* emails.csv: [exists, open, rows], how often the run opened it
                     \* and whether its opening discarded rows
    events,          \* app: the events yielded so far, in order
    dependents,      \* the list get_repo_dependents returned
    working,         \* the candidates the loop iterates: dependents[:MAX_DEPENDENTS]
                     \* (app), random.sample(dependents, ...) (cli)
    i,               \* the loop's index of the current candidate (0-based)
    processed_count, \* app: processed_count
    user_data,       \* the loop's local: what get_user_data last returned
    email_content,   \* the loop's local: what process_user last returned
    scanned,         \* commits the last commit scan looked at before it returned
    target_details,  \* the target context built by the last get_target_repo_details
    calls,           \* every external call made so far, in order: [op, key]
    snapshots,       \* the names of the resolver snapshot files written
    sleeps,          \* number of time.sleep calls made so far
    resolved,        \* what the external dependents lookup did in this run
    request,         \* app: the POST /generate_emails request, when there is one
    response,        \* app: the HTTP response to it
    overlap          \* app: the file handles of two runs that overlap in time

vars == <<variant, secrets, target_repo, pc, file, events, dependents,
          working, i, processed_count, user_data, email_content, scanned,
          target_details, calls, snapshots, sleeps, resolved, request, response,
          overlap>>

-----------------------------------------------------------------------------
(* Bounds of the model *)

\* longest list of arbitrary dependents the resolver returns
MaxLen == 2
\* longest commit list the commit scan sees
MaxCommits == 2
\* rows an earlier run may have left in emails.csv
MaxStale == 1
\* rows each of two overlapping runs writes
MaxOverlapRows == 2

(* Program constants *)

MAX_DEPENDENTS == 5
\* time.sleep(1) in app.py, time.sleep(2) in main.py: counted, not timed

-----------------------------------------------------------------------------
(* Python values *)

None == <<"None">>

\* bool(x) of a string-or-None
Truthy(x) == x # None /\ x # <<>>

Range(s) == {s[k] : k \in 1..Len(s)}

\* tok in s
Contains(s, tok) == tok \in Range(s)

\* s.endswith(suffix)
EndsWith(s, suffix) ==
    /\ Len(s) >= Len(suffix)
    /\ SubSeq(s, Len(s) - Len(suffix) + 1, Len(s)) = suffix

FirstIndex(s, tok) == CHOOSE k \in 1..Len(s) : s[k] = tok /\ \A j \in 1..(k-1) : s[j] # tok

\* s.split(sep): every separator splits
RECURSIVE Split(_, _)
Split(s, sep) ==
    IF ~Contains(s, sep) THEN <<s>>
    ELSE LET k == FirstIndex(s, sep)
         IN  <<SubSeq(s, 1, k - 1)>> \o Split(SubSeq(s, k + 1, Len(s)), sep)

\* s.split(sep, 1): only the first separator splits
SplitOnce(s, sep) ==
    IF ~Contains(s, sep) THEN <<s>>
    ELSE LET k == FirstIndex(s, sep)
         IN  <<SubSeq(s, 1, k - 1), SubSeq(s, k + 1, Len(s))>>

\* number of elements of seq that satisfy Test
CountIf(seq, Test(_)) == Cardinality({k \in 1..Len(seq) : Test(seq[k])})

Min(a, b) == IF a <= b THEN a ELSE b

\* seq[:n]
Prefix(seq, n) == SubSeq(seq, 1, Min(n, Len(seq)))

-----------------------------------------------------------------------------
(* The outside world: what the hosting API, the memory store and the       *)
(* generation service answer for one dependent.  A dependent of the        *)
(* resolver's list is the dict (hasName, name) together with the answers   *)
(* w the services give when asked about it.                                *)

NoReplySuffix == <<"@", "users.noreply.github.com">>

RelayEmail == <<"1+bot", "@", "users.noreply.github.com">>
RealEmail  == <<"dev", "@", "example.com">>
OtherEmail == <<"ops", "@", "example.org">>
DeclEmail  == <<"me", "@", "profile.io">>

\* commit.commit.author of one commit: absent, or with an email field
CommitValues ==
    {[author |-> FALSE, email |-> None]} \cup
    {[author |-> TRUE, email |-> e] : e \in {None, <<>>, RelayEmail, RealEmail, OtherEmail}}

CommitLists == UNION {[1..n -> CommitValues] : n \in 0..MaxCommits}

RepoMeta == [description |-> <<"a tool">>, stargazers_count |-> 7,
             language |-> <<"Python">>, topics |-> None]

BaseWorld ==
    [userOk      |-> TRUE,          \* gh.users.get_by_username succeeds
     displayName |-> <<"Dev">>,     \* user.name
     declared    |-> None,          \* user.email
     commitsOk   |-> TRUE,          \* gh.repos.list_commits succeeds
     commits     |-> <<>>,          \* the commits it returns, in order
     repoOk      |-> TRUE,          \* gh.repos.get(owner, repo_name) succeeds
     mem         |-> "ok",          \* "ok", or the memory call that raises
     gen         |-> "text"]        \* the generation call: "text", "none", "raise"

Dep(name, w) == [hasName |-> TRUE, name |-> name, w |-> w]

NoNameDep == [hasName |-> FALSE, name |-> None, w |-> BaseWorld]

AliceName == <<"alice", "/", "proj">>
BobName   == <<"bob", "/", "tool">>

\* a dependent whose synthesis succeeds
OkDep == Dep(AliceName, [BaseWorld EXCEPT !.declared = DeclEmail])

\* a dependent with a profile and no resolvable email
NoEmailDep == Dep(BobName, [BaseWorld EXCEPT !.displayName = None,
                                             !.commits = <<[author |-> TRUE, email |-> RelayEmail]>>])

\* every way the enrichment of one dependent can go
EnrichDeps ==
    {Dep(BobName, [BaseWorld EXCEPT !.commits = c]) : c \in CommitLists}
    \cup {Dep(BobName, [BaseWorld EXCEPT !.declared = d, !.commits = c]) :
            d \in {<<>>, DeclEmail}, c \in {<<>>, <<[author |-> TRUE, email |-> RealEmail]>>}}
    \cup {Dep(BobName, [BaseWorld EXCEPT !.commitsOk = FALSE, !.commits = c]) :
            c \in {<<[author |-> TRUE, email |-> RealEmail]>>}}
    \cup {Dep(BobName, [BaseWorld EXCEPT !.userOk = FALSE, !.declared = d]) : d \in {None, DeclEmail}}
    \cup {Dep(BobName, [BaseWorld EXCEPT !.repoOk = FALSE, !.declared = d]) : d \in {None, DeclEmail}}

\* every shape of the name field
NameDeps ==
    {NoNameDep}
    \cup {Dep(n, [BaseWorld EXCEPT !.declared = DeclEmail]) :
            n \in {<<>>, <<"solo">>, <<"carol", "/", "a", "/", "b">>, <<"/">>}}

\* every way the synthesis of one recipient can go
SynthDeps ==
    {Dep(AliceName, [BaseWorld EXCEPT !.declared = DeclEmail, !.mem = m, !.gen = g, !.displayName = dn]) :
        m \in {"ok", "add_system", "add_context", "search"},
        g \in {"text", "none", "raise"},
        dn \in {None, <<"Alice">>}}

AllDeps == EnrichDeps \cup NameDeps \cup SynthDeps

\* the dependents that stand for each class in the longer lists
RepresentativeDeps ==
    {NoNameDep, OkDep, NoEmailDep,
     Dep(<<"solo">>, BaseWorld),
     Dep(AliceName, [BaseWorld EXCEPT !.declared = DeclEmail, !.mem = "add_context"]),
     Dep(AliceName, [BaseWorld EXCEPT !.declared = DeclEmail, !.gen = "none"]),
     Dep(BobName, [BaseWorld EXCEPT !.repoOk = FALSE, !.declared = DeclEmail])}

-----------------------------------------------------------------------------
(* Profile Enricher *)

Call(op, key) == [op |-> op, key |-> key]

RepoKey(owner, repo) == owner \o <<"/">> \o repo

\* the loop of get_email_from_commits (app.py): the first commit whose author
\* is present, has a non-empty email, and whose email is not a relay address;
\* `examined` counts the commits looked at before returning
RECURSIVE ScanCommits(_, _)
ScanCommits(commits, examined) ==
    IF commits = <<>> THEN [email |-> None, examined |-> examined]
    ELSE LET c == commits[1]
         IN  IF c.author /\ Truthy(c.email) /\ ~EndsWith(c.email, NoReplySuffix)
             THEN [email |-> c.email, examined |-> examined + 1]
             ELSE ScanCommits(Tail(commits), examined + 1)

\* (mutant) the scan without the relay-address test: the first author email
get_email_from_commits_any(username, repo, w) ==
    LET hits == {k \in 1..Len(w.commits) : w.commits[k].author /\ Truthy(w.commits[k].email)}
        first == CHOOSE k \in hits : \A j \in hits : k <= j
    IN  [ret      |-> IF w.commitsOk /\ hits # {} THEN w.commits[first].email ELSE None,
         examined |-> IF w.commitsOk /\ hits # {} THEN first ELSE 0,
         trace    |-> <<Call("repos.list_commits", RepoKey(username, repo))>>]

\* app.py get_email_from_commits: the list_commits call, then the scan; an
\* exception of the call is caught and gives None
get_email_from_commits(username, repo, w) ==
    LET scan == ScanCommits(w.commits, 0)
    IN  [ret      |-> IF w.commitsOk THEN scan.email ELSE None,
         examined |-> IF w.commitsOk THEN scan.examined ELSE 0,
         trace    |-> <<Call("repos.list_commits", RepoKey(username, repo))>>]

\* the loop of main.py's get_email_from_commits: no test that the email is
\* set, so email None raises AttributeError (caught by the function: None)
\* and an empty email is returned as it is
RECURSIVE ScanCommitsCli(_, _)
ScanCommitsCli(commits, examined) ==
    IF commits = <<>> THEN [email |-> None, examined |-> examined]
    ELSE LET c == commits[1]
         IN  IF c.author /\ c.email = None
             THEN [email |-> None, examined |-> examined + 1]
             ELSE IF c.author /\ ~EndsWith(c.email, NoReplySuffix)
             THEN [email |-> c.email, examined |-> examined + 1]
             ELSE ScanCommitsCli(Tail(commits), examined + 1)

get_email_from_commits_cli(username, repo, w) ==
    LET scan == ScanCommitsCli(w.commits, 0)
    IN  [ret      |-> IF w.commitsOk THEN scan.email ELSE None,
         examined |-> IF w.commitsOk THEN scan.examined ELSE 0,
         trace    |-> <<Call("repos.list_commits", RepoKey(username, repo))>>]

\* get_user_data returns None
NoProfile == [absent |-> TRUE]

UserData(owner, repo_name, full_name, w, email, topics) ==
    [absent           |-> FALSE,
     username         |-> owner,
     name             |-> w.displayName,
     email            |-> email,
     repo_name        |-> repo_name,
     repo_url         |-> <<"https://github.com/">> \o full_name,
     repo_description |-> RepoMeta.description,
     repo_stars       |-> RepoMeta.stargazers_count,
     repo_language    |-> RepoMeta.language,
     repo_topics      |-> topics]

\* (mutant) the repository lookup in a try of its own: when it fails the
\* profile is returned with empty metadata
EnrichTryDefaults(owner, repo_name, full_name, w, commitScan, topics) ==
    LET lookup == <<Call("users.get_by_username", owner)>>
        repoget == <<Call("repos.get", RepoKey(owner, repo_name))>>
        useDeclared == Truthy(w.declared)
        email == IF useDeclared THEN w.declared ELSE commitScan.ret
        t2 == IF useDeclared THEN lookup ELSE lookup \o commitScan.trace
        ex == IF useDeclared THEN 0 ELSE commitScan.examined
        full == UserData(owner, repo_name, full_name, w, email, topics)
    IN  IF ~w.userOk
        THEN [raised |-> FALSE, ret |-> NoProfile, trace |-> lookup, examined |-> 0]
        ELSE [raised |-> FALSE,
              ret |-> IF w.repoOk THEN full
                      ELSE [full EXCEPT !.repo_description = None, !.repo_stars = 0,
                                        !.repo_language = None, !.repo_topics = <<>>],
              trace |-> t2 \o repoget, examined |-> ex]

\* The body of the try block shared by both get_user_data: the owner lookup,
\* the email (declared, else from the commits), the repository lookup.  Any
\* exception is caught by the one handler, which returns None.
EnrichTry(owner, repo_name, full_name, w, commitScan, topics) ==
    LET lookup == <<Call("users.get_by_username", owner)>>
        repoget == <<Call("repos.get", RepoKey(owner, repo_name))>>
    IN  IF ~w.userOk
        THEN [raised |-> FALSE, ret |-> NoProfile, trace |-> lookup, examined |-> 0]
        ELSE LET useDeclared == Truthy(w.declared)
                 email == IF useDeclared THEN w.declared ELSE commitScan.ret
                 t2 == IF useDeclared THEN lookup ELSE lookup \o commitScan.trace
                 ex == IF useDeclared THEN 0 ELSE commitScan.examined
             IN  IF ~w.repoOk
                 THEN [raised |-> FALSE, ret |-> NoProfile, trace |-> t2 \o repoget, examined |-> ex]
                 ELSE [raised |-> FALSE,
                       ret |-> UserData(owner, repo_name, full_name, w, email, topics),
                       trace |-> t2 \o repoget, examined |-> ex]

\* app.py get_user_data
get_user_data(dependent) ==
    LET name == IF dependent.hasName THEN dependent.name ELSE <<>>   \* .get("name", "")
    IN  IF ~Contains(name, "/")
        THEN [raised |-> FALSE, ret |-> NoProfile, trace |-> <<>>, examined |-> 0]
        ELSE LET parts == SplitOnce(name, "/")
                 owner == parts[1]
                 repo_name == parts[2]
             IN  EnrichTry(owner, repo_name, name, dependent.w,
                           get_email_from_commits(owner, repo_name, dependent.w),
                           IF Truthy(RepoMeta.topics) THEN RepoMeta.topics ELSE <<>>)

\* main.py get_user_data: dependent["name"] raises KeyError when the key is
\* missing, and the two-name unpacking of split("/") raises ValueError unless
\* there is exactly one separator; both happen before the try block
get_user_data_cli(dependent) ==
    IF ~dependent.hasName
    THEN [raised |-> TRUE, ret |-> NoProfile, trace |-> <<>>, examined |-> 0]
    ELSE LET parts == Split(dependent.name, "/")
         IN  IF Len(parts) # 2
             THEN [raised |-> TRUE, ret |-> NoProfile, trace |-> <<>>, examined |-> 0]
             ELSE EnrichTry(parts[1], parts[2], dependent.name, dependent.w,
                            get_email_from_commits_cli(parts[1], parts[2], dependent.w),
                            RepoMeta.topics)

-----------------------------------------------------------------------------
(* Dependent Resolver *)

\* what the external lookup does: its outcome and, when it succeeds, its list
ResolverOutcomes == {"ok", "process_failed", "bad_json", "no_key", "snapshot_failed"}

\* s.replace("/", "-")
ReplaceSlash(s) == [k \in 1..Len(s) |-> IF s[k] = "/" THEN "-" ELSE s[k]]

SnapshotName(repo) == ReplaceSlash(repo) \o <<"-dependants.json">>

\* (mutant) the snapshot written outside the try block: when it fails the
\* list the tool gave is still returned
get_repo_dependents_unguarded(repo, rw) ==
    [ret      |-> IF rw.outcome \in {"ok", "snapshot_failed"} THEN rw.list ELSE <<>>,
     trace    |-> <<Call("github-dependents-info", repo)>>,
     snapshot |-> IF rw.outcome \in {"ok", "no_key"} THEN {SnapshotName(repo)} ELSE {}]

\* app.py get_repo_dependents: run the tool, parse its output, write the
\* snapshot, return the list under all_public_dependent_repos; any exception
\* is caught and gives []
get_repo_dependents(repo, rw) ==
    [ret      |-> IF rw.outcome = "ok" THEN rw.list ELSE <<>>,
     trace    |-> <<Call("github-dependents-info", repo)>>,
     snapshot |-> IF rw.outcome \in {"ok", "no_key"} THEN {SnapshotName(repo)} ELSE {}]

\* main.py get_repo_dependents: the same without the snapshot
get_repo_dependents_cli(repo, rw) ==
    [ret      |-> IF rw.outcome = "ok" THEN rw.list ELSE <<>>,
     trace    |-> <<Call("github-dependents-info", repo)>>,
     snapshot |-> {}]

-----------------------------------------------------------------------------
(* Target Context Builder *)

\* what the services answer about the target repository, at one call
TargetWorlds ==
    {[meta |-> FALSE, readme |-> FALSE, summary |-> "text"],
     [meta |-> TRUE,  readme |-> FALSE, summary |-> "text"]}
    \cup {[meta |-> TRUE, readme |-> TRUE, summary |-> g] :
            g \in {"text", "no_response", "no_text", "raise"}}

TargetMeta == [description |-> None, stargazers_count |-> 42, topics |-> None,
               homepage |-> None, language |-> <<"Go">>]

NoDetails == [built |-> FALSE]

\* (mutant) the context taken from a cache: no call is made
get_target_repo_details_cached(owner, repo, tw) ==
    [details |-> [built |-> TRUE, description |-> <<"No description available">>,
                  readme |-> <<"key features">>, stars |-> TargetMeta.stargazers_count,
                  topics |-> <<>>, homepage |-> None, language |-> TargetMeta.language],
     trace |-> <<>>]

\* app.py get_target_repo_details
get_target_repo_details(owner, repo, tw) ==
    LET key == RepoKey(owner, repo)
        get == <<Call("target.repos.get", key)>>
        readme == <<Call("target.repos.get_readme", key)>>
        summarise == <<Call("target.generate_content", key)>>
        readme_content ==
            IF ~tw.readme THEN <<"No README available">>
            ELSE IF tw.summary = "raise" THEN <<"No README available">>
            ELSE IF tw.summary = "no_response" THEN <<"Could not extract features from README">>
            ELSE IF tw.summary = "no_text" THEN None
            ELSE <<"key features">>
    IN  IF ~tw.meta
        THEN [details |-> [built |-> TRUE,
                           description |-> <<"Could not fetch repository details">>,
                           readme |-> <<"Could not fetch README">>,
                           stars |-> 0, topics |-> <<>>, homepage |-> None, language |-> None],
              trace |-> get]
        ELSE [details |-> [built |-> TRUE,
                           description |-> IF Truthy(TargetMeta.description) THEN TargetMeta.description
                                           ELSE <<"No description available">>,
                           readme |-> readme_content,
                           stars |-> TargetMeta.stargazers_count,
                           topics |-> IF Truthy(TargetMeta.topics) THEN TargetMeta.topics ELSE <<>>,
                           homepage |-> TargetMeta.homepage,
                           language |-> TargetMeta.language],
              trace |-> get \o readme \o (IF tw.readme THEN summarise ELSE <<>>)]

-----------------------------------------------------------------------------
(* Memory Store Adapter and Email Synthesizer *)

\* the text the generation service writes for a recipient
EmailBody(user) == <<"Dear ">> \o (IF Truthy(user.name) THEN user.name ELSE user.username)

\* the three memory calls, in order, up to and including the one that raises
MemoryCalls(user_id, w) ==
    LET all == <<Call("memory.add.system", user_id), Call("memory.add.context", user_id),
                 Call("memory.search", user_id)>>
    IN  IF w.mem = "add_system" THEN SubSeq(all, 1, 1)
        ELSE IF w.mem = "add_context" THEN SubSeq(all, 1, 2)
        ELSE all

\* app.py: user_id = f"{user['username']}_{user['repo_name']}"
UserId(user) == user.username \o <<"_">> \o user.repo_name

\* main.py: user_id = user["username"]
UserIdCli(user) == user.username

\* app.py process_user.  w: the services' answers for this recipient;
\* tw: their answers about the target at this call.
process_user(user, repo, w, tw) ==
    IF ~Truthy(repo) \/ ~Contains(repo, "/")
    THEN [raised |-> FALSE, cause |-> "", ret |-> None, trace |-> <<>>, details |-> NoDetails]
    ELSE LET parts == Split(repo, "/")
         IN  IF Len(parts) # 2     \* target_owner, target_repo_name = ... : ValueError
             THEN [raised |-> TRUE, cause |-> "unpack", ret |-> None, trace |-> <<>>,
                   details |-> NoDetails]
             ELSE LET td == get_target_repo_details(parts[1], parts[2], tw)
                      mem == MemoryCalls(UserId(user), w)
                      generate == <<Call("generate_content", UserId(user))>>
                  IN  IF w.mem # "ok"       \* memory.add / memory.search are outside any try
                      THEN [raised |-> TRUE, cause |-> "memory", ret |-> None,
                            trace |-> td.trace \o mem, details |-> td.details]
                      ELSE [raised |-> FALSE, cause |-> "",
                            ret |-> IF w.gen = "text" THEN EmailBody(user) ELSE None,
                            trace |-> td.trace \o mem \o generate, details |-> td.details]

\* main.py process_user: no target context, the memory identity is the
\* username, and the generation call is outside any try
process_user_cli(user, w) ==
    LET mem == MemoryCalls(UserIdCli(user), w)
        generate == <<Call("generate_content", UserIdCli(user))>>
    IN  IF w.mem # "ok"
        THEN [raised |-> TRUE, cause |-> "memory", ret |-> None, trace |-> mem]
        ELSE IF w.gen = "raise"
        THEN [raised |-> TRUE, cause |-> "generate", ret |-> None, trace |-> mem \o generate]
        ELSE [raised |-> FALSE, cause |-> "",
              ret |-> IF w.gen = "text" THEN EmailBody(user) ELSE None,
              trace |-> mem \o generate]

-----------------------------------------------------------------------------
(* Inputs and initial state *)

\* (mutant) the memory-store key left out of the check
AllSecretsButMemory == {"GITHUB_TOKEN", "GEMINI_API_KEY"}

\* the secrets both programs require: all([GITHUB_TOKEN, GEMINI_API_KEY, MEM0_API_KEY])
AllSecrets == {"GITHUB_TOKEN", "GEMINI_API_KEY", "MEM0_API_KEY"}

\* main.py: TARGET_REPO = "mem0ai/mem0"
TARGET_REPO == <<"mem0ai", "/", "mem0">>

\* the target_repo arguments tried: empty, no separator, owner/repo, two
\* separators, a separator alone
TargetRepos ==
    {<<>>, <<"not-a-repo-id">>, <<"octo", "/", "widgets">>,
     <<"octo", "/", "widgets", "/", "x">>, <<"/">>}

Header == << <<"name">>, <<"email">>, <<"email_content">> >>

\* a row an earlier run wrote
StaleRow == << <<"Old">>, <<"old", "@", "example.net">>, <<"Dear Old">> >>

\* emails.csv before the run: absent, or as an earlier run left it
InitialFiles ==
    {[exists |-> FALSE, open |-> FALSE, opens |-> 0, lostRows |-> FALSE, rows |-> <<>>]}
    \cup {[exists |-> TRUE, open |-> FALSE, opens |-> 0, lostRows |-> FALSE,
           rows |-> <<Header>> \o [k \in 1..n |-> StaleRow]] :
            n \in 0..MaxStale}

\* the lists the resolver may return: every short list of representative
\* dependents, every single dependent, the seven-dependent lists with two
\* entries without a name, three without an email and two that succeed (in
\* every order), and lists of successes as long as the cap and longer
ShortLists == UNION {[1..n -> RepresentativeDeps] : n \in 0..MaxLen}

SingleLists == {<<d>> : d \in AllDeps}

ScenarioLists ==
    {l \in [1..7 -> {NoNameDep, NoEmailDep, OkDep}] :
        /\ Cardinality({k \in 1..7 : l[k] = NoNameDep}) = 2
        /\ Cardinality({k \in 1..7 : l[k] = NoEmailDep}) = 3
        /\ Cardinality({k \in 1..7 : l[k] = OkDep}) = 2}

CapLists == {[k \in 1..n |-> OkDep] : n \in MAX_DEPENDENTS..(MAX_DEPENDENTS + MaxLen)}

\* a second dependent whose synthesis succeeds
OkDepBob == Dep(BobName, [BaseWorld EXCEPT !.declared = DeclEmail, !.displayName = None])

\* lists in which the order of two successes can be told
OrderLists ==
    {<<OkDep, NoEmailDep, OkDepBob>>, <<OkDepBob, NoNameDep, OkDep>>,
     <<OkDepBob, OkDep, OkDep, OkDep, OkDep, OkDepBob>>}

\* a second dependent repository of the owner of OkDep
OkDepTool == Dep(<<"alice", "/", "tool">>, [BaseWorld EXCEPT !.declared = DeclEmail])

\* lists with one owner twice, and with two owners of repositories of one name
SameOwnerLists == {<<OkDep, OkDepTool>>, <<OkDepTool, OkDepBob>>}

ResolverLists ==
    ShortLists \cup SingleLists \cup ScenarioLists \cup CapLists \cup OrderLists
    \cup SameOwnerLists

\* a failed lookup: the tool gave nothing usable, or it listed dependents and
\* the snapshot could not be written
FailedLookups ==
    {[outcome |-> o, list |-> <<>>] : o \in ResolverOutcomes \ {"ok"}}
    \cup {[outcome |-> "snapshot_failed", list |-> <<OkDep>>]}

ResolverWorlds ==
    FailedLookups \cup {[outcome |-> "ok", list |-> l] : l \in ResolverLists}

\* the lists tried with main.py, whose sample multiplies the cases
CliResolverWorlds ==
    {[outcome |-> o, list |-> <<>>] : o \in ResolverOutcomes \ {"ok", "snapshot_failed"}}
    \cup {[outcome |-> "ok", list |-> l] :
            l \in ShortLists \cup SingleLists \cup CapLists \cup OrderLists
                  \cup SameOwnerLists}

\* the runs that may overlap
Runs == {1, 2}

\* one run alone: no second handle on emails.csv
NoOverlap == [r \in Runs |-> [pc |-> "none", pos |-> 0]]

\* the lookup has not run yet
NotResolved == [outcome |-> "none", list |-> <<>>]

\* generate_email_stream called without a request
NoRequest == [json |-> "none", hasField |-> FALSE, repository |-> None]

\* the bodies of the POST requests tried: no JSON body, the JSON value null,
\* an object without the repository field, an object with the field
Requests ==
    {[json |-> j, hasField |-> FALSE, repository |-> None] : j \in {"absent", "null", "object"}}
    \cup {[json |-> "object", hasField |-> TRUE, repository |-> r] :
            r \in {<<>>, <<"not-a-repo-id">>, <<"octo", "/", "widgets">>, <<"/">>}}

NoResponse == [status |-> 0]

Init ==
    /\ variant \in {"app", "cli"}
    /\ secrets \in SUBSET AllSecrets
    /\ \/ /\ request = NoRequest
          /\ target_repo \in (IF variant = "app" THEN TargetRepos ELSE {TARGET_REPO})
          /\ pc = "start"
       \/ /\ variant = "app"
          /\ request \in Requests
          /\ target_repo = None
          /\ pc = "request"
    /\ response = NoResponse
    /\ resolved = NotResolved
    /\ overlap = NoOverlap
    /\ file \in InitialFiles
    /\ events = <<>>
    /\ dependents = <<>>
    /\ working = <<>>
    /\ i = 0
    /\ processed_count = 0
    /\ user_data = NoProfile
    /\ email_content = None
    /\ scanned = 0
    /\ target_details = NoDetails
    /\ calls = <<>>
    /\ snapshots = {}
    /\ sleeps = 0

-----------------------------------------------------------------------------
(* Events: the JSON objects generate_email_stream yields *)

StatusEvent(m)  == [status |-> m]
WarningEvent(m) == [warning |-> m]
ErrorEvent(m)   == [error |-> m]
ResultEvent(profile, body) ==
    [user          |-> profile.username,
     name          |-> profile.name,
     email_address |-> profile.email,
     repo          |-> profile.repo_name,
     email_body    |-> body]

IsStatus(e)  == "status" \in DOMAIN e
IsWarning(e) == "warning" \in DOMAIN e
IsError(e)   == "error" \in DOMAIN e
IsResult(e)  == "email_body" \in DOMAIN e

\* (mutant) the file opened for appending: what it held is kept
OpenForAppend ==
    [exists |-> TRUE, open |-> TRUE, opens |-> file.opens + 1, lostRows |-> FALSE,
     rows |-> file.rows \o <<Header>>]

\* with open(csv_filename, "w", ...): truncate or create, then the header
\* row; `lostRows` says that the truncation discarded rows the file held
OpenForWrite ==
    [exists |-> TRUE, open |-> TRUE, opens |-> file.opens + 1, lostRows |-> Len(file.rows) > 1,
     rows |-> <<Header>>]

\* (mutant) the file left as it is when the block is left
StillOpen(f) == f

\* leaving the with block, normally or by an exception
Closed(f) == [f EXCEPT !.open = FALSE]

\* the row of one recipient
CsvRow(profile, body) ==
    <<IF Truthy(profile.name) THEN profile.name ELSE profile.username, profile.email, body>>

-----------------------------------------------------------------------------
(* Pipeline Orchestrator, src/app.py: generate_email_stream.  The generator *)
(* runs only when its consumer asks for the next event, so each action is  *)
(* the code from one yield to the next.                                    *)

\* (mutant) the slice taken from the end of the list
WorkingSetTail(deps) == SubSeq(deps, Len(deps) - Min(MAX_DEPENDENTS, Len(deps)) + 1, Len(deps))

\* (mutant) the slice one too long
WorkingSetOffByOne(deps) == Prefix(deps, MAX_DEPENDENTS + 1)

\* (mutant) the loop over the whole list, the slice forgotten
WorkingSetUncapped(deps) == deps

\* the cap applied to the resolver's list: dependents[:MAX_DEPENDENTS]
WorkingSet(deps) == Prefix(deps, MAX_DEPENDENTS)

\* (mutant) the final status reporting the candidates taken, not the emails
LoopHeadCountsCandidates(n, ws, total, count) ==
    IF n >= Len(ws)
    THEN [event |-> StatusEvent([text |-> "Finished processing", count |-> n,
                                 file |-> "emails.csv"]),
          pc |-> "y_finished", i |-> n]
    ELSE IF ~ws[n + 1].hasName
    THEN [event |-> WarningEvent([text |-> "Skipping dependent: missing name", index |-> n]),
          pc |-> "y_warning", i |-> n]
    ELSE [event |-> StatusEvent([text |-> "Processing dependent", index |-> n + 1,
                                 of |-> Min(total, MAX_DEPENDENTS), name |-> ws[n + 1].name]),
          pc |-> "y_processing", i |-> n]

\* The top of the for loop at index n, up to its first yield: the final
\* status when the working set is exhausted, the skip warning when the
\* candidate has no name, the "Processing dependent" status otherwise.
LoopHead(n, ws, total, count) ==
    IF n >= Len(ws)
    THEN [event |-> StatusEvent([text |-> "Finished processing", count |-> count,
                                 file |-> "emails.csv"]),
          pc |-> "y_finished", i |-> n]
    ELSE IF ~ws[n + 1].hasName
    THEN [event |-> WarningEvent([text |-> "Skipping dependent: missing name", index |-> n]),
          pc |-> "y_warning", i |-> n]
    ELSE [event |-> StatusEvent([text |-> "Processing dependent", index |-> n + 1,
                                 of |-> Min(total, MAX_DEPENDENTS), name |-> ws[n + 1].name]),
          pc |-> "y_processing", i |-> n]

\* The first call of next(): the two pre-flight checks, then the file is
\* opened for writing, the header written and the first status yielded.
\* open() may fail; the handler of the try then yields the error.
Start ==
    /\ variant = "app"
    /\ pc = "start"
    /\ \E openOk \in BOOLEAN :
        IF secrets # AllSecrets
        THEN /\ events' = Append(events, ErrorEvent([text |-> "Missing API keys"]))
             /\ pc' = "y_missing_keys"
             /\ file' = file
        ELSE IF ~Truthy(target_repo) \/ ~Contains(target_repo, "/")
        THEN /\ events' = Append(events, ErrorEvent([text |-> "Invalid target repository format",
                                                     repo |-> target_repo]))
             /\ pc' = "y_invalid_repo"
             /\ file' = file
        ELSE IF ~openOk
        THEN /\ events' = Append(events, ErrorEvent([text |-> "An unexpected error occurred",
                                                     cause |-> "open"]))
             /\ pc' = "y_error"
             /\ file' = file
        ELSE /\ events' = Append(events, StatusEvent([text |-> "Fetching dependents",
                                                      repo |-> target_repo]))
             /\ pc' = "y_fetching"
             /\ file' = OpenForWrite
    /\ UNCHANGED <<variant, secrets, overlap, target_repo, request, response, resolved, dependents, working, i, processed_count,
                   user_data, email_content, scanned, target_details, calls, snapshots, sleeps>>

\* next() after a pre-flight error event: the return statement
ResumePreflight ==
    /\ variant = "app"
    /\ pc \in {"y_missing_keys", "y_invalid_repo"}
    /\ pc' = "done"
    /\ UNCHANGED <<variant, secrets, overlap, target_repo, request, response, resolved, file, events, dependents, working, i,
                   processed_count,
                   user_data, email_content, scanned, target_details, calls, snapshots, sleeps>>

\* next() after "Fetching dependents": the resolver, then the "Found" status
ResumeFetching ==
    /\ variant = "app"
    /\ pc = "y_fetching"
    /\ \E rw \in ResolverWorlds :
        LET r == get_repo_dependents(target_repo, rw)
        IN  /\ dependents' = r.ret
            /\ calls' = calls \o r.trace
            /\ snapshots' = snapshots \cup r.snapshot
            /\ events' = Append(events, StatusEvent([text |-> "Found", total |-> Len(r.ret),
                                                     cap |-> MAX_DEPENDENTS]))
            /\ resolved' = rw
    /\ pc' = "y_found"
    /\ UNCHANGED <<variant, secrets, overlap, target_repo, request, response, file, working, i, processed_count,
                   user_data, email_content, scanned, target_details, sleeps>>

\* next() after "Found": processed_count = 0 and the loop's first candidate
ResumeFound ==
    /\ variant = "app"
    /\ pc = "y_found"
    /\ LET ws == WorkingSet(dependents)
           h == LoopHead(0, ws, Len(dependents), 0)
       IN  /\ working' = ws
           /\ processed_count' = 0
           /\ events' = Append(events, h.event)
           /\ pc' = h.pc
           /\ i' = h.i
    /\ UNCHANGED <<variant, secrets, overlap, target_repo, request, response, resolved, file, dependents, user_data, email_content,
                   scanned, target_details, calls, snapshots, sleeps>>

\* next() after a warning: the loop goes on with the next candidate
ResumeWarning ==
    /\ variant = "app"
    /\ pc = "y_warning"
    /\ LET h == LoopHead(i + 1, working, Len(dependents), processed_count)
       IN  /\ events' = Append(events, h.event)
           /\ pc' = h.pc
           /\ i' = h.i
    /\ UNCHANGED <<variant, secrets, overlap, target_repo, request, response, resolved, file, dependents, working, processed_count,
                   user_data, email_content, scanned, target_details, calls, snapshots, sleeps>>

\* (mutant) the exception swallowed: the file is closed and nothing is yielded
RaiseSilently(cause) ==
    /\ file' = Closed(file)
    /\ events' = events
    /\ pc' = "y_error"

\* An exception that leaves the with block: the file is closed, the handler
\* yields the error event
Raise(cause) ==
    /\ file' = Closed(file)
    /\ events' = Append(events, ErrorEvent([text |-> "An unexpected error occurred",
                                            cause |-> cause]))
    /\ pc' = "y_error"

\* next() after "Processing dependent": enrichment, then for a recipient
\* with an email the synthesis, up to the result, warning or error event
ResumeProcessing ==
    /\ variant = "app"
    /\ pc = "y_processing"
    /\ LET dependent == working[i + 1]
           ud == get_user_data(dependent)
           profile == ud.ret
       IN  /\ user_data' = profile
           /\ scanned' = ud.examined
           /\ IF profile.absent
              THEN /\ events' = Append(events, WarningEvent([text |-> "Could not fetch user data",
                                                             name |-> dependent.name]))
                   /\ pc' = "y_warning"
                   /\ calls' = calls \o ud.trace
                   /\ UNCHANGED <<file, processed_count, email_content, target_details>>
              ELSE IF ~Truthy(profile.email)
              THEN /\ events' = Append(events, WarningEvent([text |-> "No email found",
                                                             user |-> profile.username]))
                   /\ pc' = "y_warning"
                   /\ calls' = calls \o ud.trace
                   /\ UNCHANGED <<file, processed_count, email_content, target_details>>
              ELSE \E tw \in TargetWorlds :
                   LET pu == process_user(profile, target_repo, dependent.w, tw)
                   IN  /\ calls' = calls \o ud.trace \o pu.trace
                       /\ target_details' = IF pu.details.built THEN pu.details ELSE target_details
                       /\ IF pu.raised
                          THEN /\ Raise(pu.cause)
                               /\ UNCHANGED <<processed_count, email_content>>
                          ELSE /\ email_content' = pu.ret
                               /\ file' = file
                               /\ IF Truthy(pu.ret)
                                  THEN /\ processed_count' = processed_count + 1
                                       /\ events' = Append(events, ResultEvent(profile, pu.ret))
                                       /\ pc' = "y_result"
                                  ELSE /\ processed_count' = processed_count
                                       /\ events' = Append(events,
                                              WarningEvent([text |-> "Could not generate email",
                                                            user |-> profile.username]))
                                       /\ pc' = "y_warning"
    /\ UNCHANGED <<variant, secrets, overlap, target_repo, request, response, resolved, dependents, working, i, snapshots, sleeps>>

\* (mutant) the row written and the loop going on without the sleep
ResumeResultNoSleep ==
    /\ variant = "app"
    /\ pc = "y_result"
    /\ \E writeOk \in BOOLEAN :
        IF writeOk
        THEN LET h == LoopHead(i + 1, working, Len(dependents), processed_count)
             IN  /\ file' = [file EXCEPT !.rows = Append(@, CsvRow(user_data, email_content))]
                 /\ sleeps' = sleeps
                 /\ events' = Append(events, h.event)
                 /\ pc' = h.pc
                 /\ i' = h.i
        ELSE /\ Raise("writerow")
             /\ UNCHANGED <<i, sleeps>>
    /\ UNCHANGED <<variant, secrets, overlap, target_repo, request, response, resolved, dependents,
                   working, processed_count,
                   user_data, email_content, scanned, target_details, calls, snapshots>>

\* next() after a result event: the row is written, the courtesy sleep,
\* then the next candidate.  writerow may fail.
ResumeResult ==
    /\ variant = "app"
    /\ pc = "y_result"
    /\ \E writeOk \in BOOLEAN :
        IF writeOk
        THEN LET h == LoopHead(i + 1, working, Len(dependents), processed_count)
             IN  /\ file' = [file EXCEPT !.rows = Append(@, CsvRow(user_data, email_content))]
                 /\ sleeps' = sleeps + 1
                 /\ events' = Append(events, h.event)
                 /\ pc' = h.pc
                 /\ i' = h.i
        ELSE /\ Raise("writerow")
             /\ UNCHANGED <<i, sleeps>>
    /\ UNCHANGED <<variant, secrets, overlap, target_repo, request, response, resolved, dependents, working, processed_count,
                   user_data, email_content, scanned, target_details, calls, snapshots>>

\* next() after the final status: the with block ends and closes the file
ResumeFinished ==
    /\ variant = "app"
    /\ pc = "y_finished"
    /\ file' = Closed(file)
    /\ pc' = "done"
    /\ UNCHANGED <<variant, secrets, overlap, target_repo, request, response, resolved, events, dependents, working, i,
                   processed_count,
                   user_data, email_content, scanned, target_details, calls, snapshots, sleeps>>

\* next() after the error event of a handler: the generator ends
ResumeError ==
    /\ variant = "app"
    /\ pc = "y_error"
    /\ pc' = "done"
    /\ UNCHANGED <<variant, secrets, overlap, target_repo, request, response, resolved, file, events, dependents, working, i,
                   processed_count,
                   user_data, email_content, scanned, target_details, calls, snapshots, sleeps>>

\* (mutant) the row of a pending result written when the generator is closed
AbandonWritingRow ==
    /\ variant = "app"
    /\ pc \in {"y_missing_keys", "y_invalid_repo", "y_fetching", "y_found", "y_warning",
               "y_processing", "y_result", "y_finished", "y_error"}
    /\ file' = IF pc = "y_result"
               THEN Closed([file EXCEPT !.rows = Append(@, CsvRow(user_data, email_content))])
               ELSE Closed(file)
    /\ pc' = "closed"
    /\ UNCHANGED <<variant, secrets, overlap, target_repo, request, response, resolved, events,
                   dependents, working, i, processed_count, user_data, email_content,
                   scanned, target_details, calls, snapshots, sleeps>>

\* The consumer stops pulling events and closes the generator while it is
\* suspended at a yield: GeneratorExit is raised there.  No handler catches
\* it (it is not an Exception); when the yield is inside the with block the
\* block closes the file on the way out.
Abandon ==
    /\ variant = "app"
    /\ pc \in {"y_missing_keys", "y_invalid_repo", "y_fetching", "y_found", "y_warning",
               "y_processing", "y_result", "y_finished", "y_error"}
    /\ file' = Closed(file)
    /\ pc' = "closed"
    /\ UNCHANGED <<variant, secrets, overlap, target_repo, request, response, resolved, events,
                   dependents, working, i, processed_count, user_data, email_content,
                   scanned, target_details, calls, snapshots, sleeps>>

-----------------------------------------------------------------------------
(* The trigger, src/app.py: generate_emails *)

\* jsonify({"error": ...}), 400
ErrorResponse(m) == [status |-> 400, json |-> TRUE, body |-> [error |-> m]]

\* what the framework answers by itself: its error page for the exception
\* the view raised, or for a body it refuses to read as JSON
FrameworkResponse(code) == [status |-> code, json |-> FALSE]

\* Response(stream_with_context(generate_email_stream(target_repo)), ...)
StreamResponse == [status |-> 200, json |-> FALSE, stream |-> TRUE]

\* POST /generate_emails.  request.get_json() of a request without a JSON
\* body returns None or makes the framework answer 415 or 400 itself,
\* depending on the framework's version; data.get of None raises
\* AttributeError, which the framework answers with 500.
generate_emails ==
    /\ variant = "app"
    /\ pc = "request"
    /\ \E get_json \in {"value", "abort_415", "abort_400"} :
        /\ request.json # "absent" => get_json = "value"
        /\ IF get_json = "abort_415" THEN /\ response' = FrameworkResponse(415)
                                          /\ pc' = "responded"
                                          /\ target_repo' = target_repo
           ELSE IF get_json = "abort_400" THEN /\ response' = FrameworkResponse(400)
                                               /\ pc' = "responded"
                                               /\ target_repo' = target_repo
           ELSE IF request.json # "object"          \* data is None: data.get raises
           THEN /\ response' = FrameworkResponse(500)
                /\ pc' = "responded"
                /\ target_repo' = target_repo
           ELSE LET repository == IF request.hasField THEN request.repository ELSE None
                IN  /\ target_repo' = repository
                    /\ IF ~Truthy(repository)
                       THEN /\ response' = ErrorResponse("Repository not provided")
                            /\ pc' = "responded"
                       ELSE IF ~Contains(repository, "/")
                       THEN /\ response' = ErrorResponse("Invalid repository format")
                            /\ pc' = "responded"
                       ELSE /\ response' = StreamResponse
                            /\ pc' = "start"
    /\ UNCHANGED <<variant, secrets, overlap, request, resolved, file, events, dependents, working, i,
                   processed_count, user_data, email_content, scanned, target_details,
                   calls, snapshots, sleeps>>

NextApp ==
    \/ generate_emails
    \/ Abandon
    \/ Start
    \/ ResumePreflight
    \/ ResumeFetching
    \/ ResumeFound
    \/ ResumeWarning
    \/ ResumeProcessing
    \/ ResumeResult
    \/ ResumeFinished
    \/ ResumeError

-----------------------------------------------------------------------------
(* Pipeline Orchestrator, src/main.py: main.  Nothing is yielded: an action *)
(* is the start of main up to the loop, one iteration of the loop, or the  *)
(* end of the with block.  An exception nothing catches ends the process   *)
(* (pc = "crashed"), the with block closing the file on the way out.       *)

\* random.sample(list, k): k distinct positions of the list, in any order
Samples(list, k) ==
    {[j \in 1..k |-> list[f[j]]] :
        f \in {g \in [1..k -> 1..Len(list)] : \A a, b \in 1..k : a # b => g[a] # g[b]}}

\* the candidates main iterates
WorkingSetCli(deps) == Samples(deps, Min(MAX_DEPENDENTS, Len(deps)))

CliStart ==
    /\ variant = "cli"
    /\ pc = "start"
    /\ IF secrets # AllSecrets
       THEN /\ pc' = "done"
            /\ UNCHANGED <<file, dependents, working, calls, resolved>>
       ELSE \E rw \in CliResolverWorlds, openOk \in BOOLEAN :
            LET r == get_repo_dependents_cli(target_repo, rw)
            IN  /\ dependents' = r.ret
                /\ resolved' = rw
                /\ calls' = calls \o r.trace
                /\ IF openOk
                   THEN /\ file' = OpenForWrite
                        /\ working' \in WorkingSetCli(r.ret)
                        /\ pc' = "cli_loop"
                   ELSE /\ file' = file
                        /\ working' = working
                        /\ pc' = "crashed"
    /\ UNCHANGED <<variant, secrets, overlap, target_repo, request, response, events, i,
                   processed_count, user_data,
                   email_content, scanned, target_details, snapshots, sleeps>>

\* one iteration of the for loop of main
CliStep ==
    /\ variant = "cli"
    /\ pc = "cli_loop"
    /\ i < Len(working)
    /\ LET dependent == working[i + 1]
           ud == get_user_data_cli(dependent)
           user == ud.ret
           Crash == /\ file' = Closed(file)
                    /\ pc' = "crashed"
                    /\ UNCHANGED <<i, sleeps>>
           Continue == /\ i' = i + 1
                       /\ pc' = pc
       IN  /\ user_data' = user
           /\ scanned' = ud.examined
           /\ IF ud.raised
              THEN /\ Crash
                   /\ calls' = calls \o ud.trace
                   /\ email_content' = email_content
              ELSE IF user.absent \/ ~Truthy(user.email)
              THEN /\ Continue
                   /\ calls' = calls \o ud.trace
                   /\ UNCHANGED <<file, sleeps, email_content>>
              ELSE LET pu == process_user_cli(user, dependent.w)
                   IN  /\ calls' = calls \o ud.trace \o pu.trace
                       /\ IF pu.raised
                          THEN /\ Crash
                               /\ email_content' = email_content
                          ELSE /\ email_content' = pu.ret
                               /\ IF Truthy(pu.ret)
                                  THEN \E writeOk \in BOOLEAN :      \* save_contact
                                       IF writeOk
                                       THEN /\ file' = [file EXCEPT
                                                   !.rows = Append(@, CsvRow(user, pu.ret))]
                                            /\ sleeps' = sleeps + 1
                                            /\ Continue
                                       ELSE Crash
                                  ELSE /\ Continue
                                       /\ UNCHANGED <<file, sleeps>>
    /\ UNCHANGED <<variant, secrets, overlap, target_repo, request, response, resolved, events, dependents, working,
                   processed_count, target_details, snapshots>>

\* the loop is over: the with block ends and closes the file
CliExit ==
    /\ variant = "cli"
    /\ pc = "cli_loop"
    /\ i = Len(working)
    /\ file' = Closed(file)
    /\ pc' = "done"
    /\ UNCHANGED <<variant, secrets, overlap, target_repo, request, response, resolved, events, dependents, working, i,
                   processed_count,
                   user_data, email_content, scanned, target_details, calls, snapshots, sleeps>>

NextCli ==
    \/ CliStart
    \/ CliStep
    \/ CliExit

Next == NextApp \/ NextCli

Spec == Init /\ [][Next]_vars

-----------------------------------------------------------------------------
(* Two requests served at the same time: two runs of generate_email_stream  *)
(* on the one emails.csv.  Nothing in the trigger or in the generator makes *)
(* a run wait for another, so the file operations of the two interleave     *)
(* freely.  Each run has its own handle on the file, with its own position; *)
(* the positions are counted in lines.                                      *)

RunName(r) == IF r = 1 THEN "first" ELSE "second"

\* the n-th row run r writes
OverlapRow(r, n) == << <<RunName(r)>>, <<RunName(r), "@", "example.com">>, [k \in 1..n |-> "Dear"] >>

\* what a file holds where nothing was written below a later write
Hole == << <<>>, <<>>, <<>> >>

\* a write of one line through a handle at position pos: it replaces what
\* the file holds there, or extends the file
WriteAt(lines, pos, line) ==
    [k \in 1..(IF Len(lines) > pos + 1 THEN Len(lines) ELSE pos + 1) |->
        IF k = pos + 1 THEN line
        ELSE IF k <= Len(lines) THEN lines[k]
        ELSE Hole]

InitOverlap ==
    /\ variant = "app"
    /\ secrets = AllSecrets
    /\ request = NoRequest
    /\ target_repo = <<"octo", "/", "widgets">>
    /\ pc = "start"
    /\ response = NoResponse
    /\ resolved = NotResolved
    /\ file \in InitialFiles
    /\ events = <<>>
    /\ dependents = <<>>
    /\ working = <<>>
    /\ i = 0
    /\ processed_count = 0
    /\ user_data = NoProfile
    /\ email_content = None
    /\ scanned = 0
    /\ target_details = NoDetails
    /\ calls = <<>>
    /\ snapshots = {}
    /\ sleeps = 0
    /\ overlap = [r \in Runs |-> [pc |-> "requested", pos |-> 0]]

\* run r: open(csv_filename, "w") and the header row
OverlapOpen(r) ==
    /\ overlap[r].pc = "requested"
    /\ file' = OpenForWrite
    /\ overlap' = [overlap EXCEPT ![r] = [pc |-> "open", pos |-> 1]]
    /\ UNCHANGED <<variant, secrets, target_repo, request, response, resolved, pc, events,
                   dependents, working, i, processed_count, user_data, email_content,
                   scanned, target_details, calls, snapshots, sleeps>>

\* run r: writer.writerow of its next row, at the position of its handle
OverlapWriteRow(r) ==
    /\ overlap[r].pc = "open"
    /\ overlap[r].pos <= MaxOverlapRows
    /\ file' = [file EXCEPT !.rows = WriteAt(@, overlap[r].pos, OverlapRow(r, overlap[r].pos))]
    /\ overlap' = [overlap EXCEPT ![r].pos = @ + 1]
    /\ UNCHANGED <<variant, secrets, target_repo, request, response, resolved, pc, events,
                   dependents, working, i, processed_count, user_data, email_content,
                   scanned, target_details, calls, snapshots, sleeps>>

\* run r leaves its with block: its handle is closed
OverlapClose(r) ==
    /\ overlap[r].pc = "open"
    /\ overlap' = [overlap EXCEPT ![r].pc = "closed"]
    /\ file' = [file EXCEPT !.open = \E q \in Runs \ {r} : overlap[q].pc = "open"]
    /\ UNCHANGED <<variant, secrets, target_repo, request, response, resolved, pc, events,
                   dependents, working, i, processed_count, user_data, email_content,
                   scanned, target_details, calls, snapshots, sleeps>>

NextOverlap ==
    \E r \in Runs :
        \/ OverlapOpen(r)
        \/ OverlapWriteRow(r)
        \/ OverlapClose(r)

SpecOverlap == InitOverlap /\ [][NextOverlap]_vars

-----------------------------------------------------------------------------
(* What the claims speak of *)

Last(seq) == seq[Len(seq)]

CallCount(op) == Cardinality({k \in 1..Len(calls) : calls[k].op = op})

ResultCount == CountIf(events, IsResult)

\* rows the run has appended to emails.csv (none while it has not opened it)
RowsAppended == IF file.opens = 0 THEN 0 ELSE Len(file.rows) - 1

\* owner/repo: one separator, between a non-empty owner and a non-empty name
OwnerRepoShape(s) ==
    /\ Cardinality({k \in 1..Len(s) : s[k] = "/"}) = 1
    /\ s[1] # "/"
    /\ s[Len(s)] # "/"

AllSecretsPresent == Cardinality(secrets) = 3

FinalSummary(e) == IsStatus(e) /\ e.status.text = "Finished processing"

\* an error event that reports a failed operation on emails.csv
FileFailureEvent(e) ==
    IsError(e) /\ "cause" \in DOMAIN e.error /\ e.error.cause \in {"open", "writerow"}

NoFileFailure == \A k \in 1..Len(events) : ~FileFailureEvent(events[k])

\* a commit whose author email can serve as the recipient's address
UsableCommit(c) ==
    /\ c.author
    /\ c.email # None
    /\ c.email # <<>>
    /\ ~(Len(c.email) >= 2 /\ c.email[Len(c.email)] = "users.noreply.github.com"
                           /\ c.email[Len(c.email) - 1] = "@")

HasDeclaredEmail(dep) == dep.w.declared # None /\ dep.w.declared # <<>>

\* a named dependent for which neither the profile nor the commits give an email
NoResolvableEmail(dep) ==
    /\ dep.hasName
    /\ ~HasDeclaredEmail(dep)
    /\ \/ ~dep.w.commitsOk
       \/ \A k \in 1..Len(dep.w.commits) : ~UsableCommit(dep.w.commits[k])

-----------------------------------------------------------------------------
(* C1 *)

\* C1: once the pre-flight checks have passed, the failure of one recipient's
\* stage never ends the run early: the run ends only after every candidate of
\* the working set was taken, and its last event is the final status summary.
\* (Stated for runs in which no operation on emails.csv fails and target_repo
\* has the owner/repo shape, so that only a recipient's stages can fail.)
C1_StageFailureNeverEndsRun ==
    (/\ variant = "app"
     /\ pc = "done"
     /\ AllSecretsPresent
     /\ OwnerRepoShape(target_repo)
     /\ NoFileFailure)
    => (/\ events # <<>>
        /\ FinalSummary(Last(events))
        /\ i = Len(working))

(* C2 *)

\* C2: for a target_repo of the owner/repo shape and all three secrets, the
\* stream ends with exactly one final status summary, which is its last
\* event, and emails.csv is then the header followed by complete rows.
\* (Stated for runs in which no operation on emails.csv fails.)
C2_StreamEndsWithOneSummary ==
    (/\ variant = "app"
     /\ pc = "done"
     /\ AllSecretsPresent
     /\ OwnerRepoShape(target_repo)
     /\ NoFileFailure)
    => (/\ CountIf(events, FinalSummary) = 1
        /\ FinalSummary(Last(events))
        /\ file.exists
        /\ file.rows # <<>>
        /\ file.rows[1] = Header
        /\ \A k \in 2..Len(file.rows) : Len(file.rows[k]) = Len(Header))

(* C3 *)

\* the step is the consumer asking for the next event, not its closing the stream
Resumed == pc' # "closed"

\* C3: a dependent of the working set for which no email can be resolved gets
\* a warning event and nothing else: no result event, no row, no count; and
\* after the warning the loop goes on with the next candidate.
C3_NoEmailNoResult ==
    /\ [][(/\ variant = "app"
           /\ pc = "y_processing"
           /\ Resumed
           /\ NoResolvableEmail(working[i + 1]))
          => (/\ Len(events') = Len(events) + 1
              /\ SubSeq(events', 1, Len(events)) = events
              /\ IsWarning(Last(events'))
              /\ file' = file
              /\ processed_count' = processed_count
              /\ pc' = "y_warning")]_vars
    /\ [][(variant = "app" /\ pc = "y_warning" /\ Resumed)
          => (/\ i' = i + 1
              /\ pc' \in {"y_processing", "y_warning", "y_finished"}
              /\ ResultCount' = ResultCount
              /\ file' = file)]_vars

\* the candidate after a dependent without an email is being processed
C3_Witness ==
    /\ variant = "app"
    /\ pc = "y_processing"
    /\ i >= 1
    /\ NoResolvableEmail(working[i])
    /\ working[i].w.userOk /\ working[i].w.repoOk
    /\ IsWarning(events[Len(events) - 1])
    /\ events[Len(events) - 1].warning.text = "No email found"
    /\ ResultCount = 0
    /\ RowsAppended = 0

(* C4 *)

\* C4: whatever the number of dependents the resolver returns, a run emits at
\* most 5 result events and appends at most 5 rows to emails.csv.
C4_ProcessingCap ==
    /\ ResultCount <= 5
    /\ RowsAppended <= 5

\* the resolver returned more than 5 successes and the run stopped at 5
C4_Witness ==
    /\ pc = "done"
    /\ Len(dependents) > 5
    /\ \A k \in 1..Len(dependents) : dependents[k] = OkDep
    /\ RowsAppended = 5
    /\ variant = "app" => ResultCount = 5

(* C5 *)

SeparatorCount(s) == Cardinality({k \in 1..Len(s) : s[k] = "/"})

\* the candidate has a name with a separator, its owner and repository
\* resolve, and an email is found: process_user is called for it
ReachesSynthesis(dep) ==
    /\ dep.hasName
    /\ SeparatorCount(dep.name) >= 1
    /\ dep.w.userOk
    /\ dep.w.repoOk
    /\ ~NoResolvableEmail(dep)

TargetGets      == CallCount("target.repos.get")
TargetReadmes   == CallCount("target.repos.get_readme")
TargetSummaries == CallCount("target.generate_content")

C6_MissingSecretsLeaveHeaderOnly ==
    (pc = "done" /\ ~AllSecretsPresent)
    => (/\ variant = "app" => (Len(events) = 1 /\ IsError(events[1]))
        /\ ResultCount = 0
        /\ calls = <<>>
        /\ file.exists
        /\ file.rows = <<Header>>)

\* C6 amended: with a secret missing the run ends after exactly one error
\* event, with no result and no external call, and without opening
\* emails.csv: the file is left as it was, absent or with an earlier run's
\* rows, and no header is written.
C6_MissingSecretsTouchNothing ==
    /\ [](~AllSecretsPresent =>
            (/\ pc \in {"request", "responded", "start", "y_missing_keys", "done", "closed"}
             /\ variant = "app" /\ pc \in {"y_missing_keys", "done", "closed"}
                    => (Len(events) = 1 /\ IsError(events[1]))
             /\ variant = "cli" => events = <<>>
             /\ ResultCount = 0
             /\ calls = <<>>
             /\ snapshots = {}
             /\ file.opens = 0
             /\ ~file.open))
    /\ [][~AllSecretsPresent => file' = file]_vars

\* a run without the secrets has ended and the earlier run's row is still there
C6_Witness ==
    /\ variant = "app"
    /\ pc = "done"
    /\ ~AllSecretsPresent
    /\ Len(events) = 1
    /\ IsError(events[1])
    /\ file.rows = <<Header, StaleRow>>

(* C7 *)

\* C7: a target_repo that is not of the owner/repo shape gets an error event
\* at once, and the run ends with no call of the resolver and no result.
C7_MalformedTargetRejected ==
    (variant = "app" /\ AllSecretsPresent /\ ~OwnerRepoShape(target_repo))
    => (/\ CallCount("github-dependents-info") = 0
        /\ ResultCount = 0
        /\ pc \notin {"request", "responded", "start"} => (Len(events) = 1 /\ IsError(events[1])))

(* C8 *)

\* synthesis succeeds for the candidate
Succeeds(dep) == ReachesSynthesis(dep) /\ dep.w.mem = "ok" /\ dep.w.gen = "text"

HowMany(list, Test(_)) == Cardinality({k \in 1..Len(list) : Test(list[k])})

LacksName(dep) == ~dep.hasName

\* the resolver's list of the scenario: 7 dependents, 2 without a name, 3
\* without a resolvable email, 2 that succeed
ScenarioList(list) ==
    /\ Len(list) = 7
    /\ HowMany(list, LacksName) = 2
    /\ HowMany(list, NoResolvableEmail) = 3
    /\ HowMany(list, Succeeds) = 2

SkipWarning(e)    == IsWarning(e) /\ e.warning.text = "Skipping dependent: missing name"
NoEmailWarning(e) == IsWarning(e) /\ e.warning.text = "No email found"

ScenarioRunFinished ==
    /\ variant = "app"
    /\ pc = "done"
    /\ ScenarioList(dependents)
    /\ FinalSummary(Last(events))

\* C8 as stated: in the scenario the run emits exactly 2 result events and 2
\* rows, at least 2 missing-name warnings and a warning for each of the 3
\* missing-email entries, wherever the 7 dependents stand in the list.
C8_ScenarioTwoResults ==
    ScenarioRunFinished
    => (/\ ResultCount = 2
        /\ RowsAppended = 2
        /\ CountIf(events, SkipWarning) >= 2
        /\ CountIf(events, NoEmailWarning) = 3)

FirstFive(list) == SubSeq(list, 1, 5)

\* C8 amended: in the scenario only the first 5 of the 7 are processed: the
\* run emits one result event and one row for each success among the first
\* 5, one missing-name warning for each nameless entry among them and one
\* no-email warning for each entry without an email among them.
C8_ScenarioFirstFive ==
    ScenarioRunFinished
    => (/\ ResultCount = HowMany(FirstFive(dependents), Succeeds)
        /\ RowsAppended = ResultCount
        /\ CountIf(events, SkipWarning) = HowMany(FirstFive(dependents), LacksName)
        /\ CountIf(events, NoEmailWarning) = HowMany(FirstFive(dependents), NoResolvableEmail)
        /\ CountIf(events, IsWarning) + ResultCount = 5)

\* a scenario run in which one of the two successes stood after the fifth place
C8_Witness ==
    /\ ScenarioRunFinished
    /\ Succeeds(dependents[7])
    /\ ResultCount = 1
    /\ RowsAppended = 1
    /\ CountIf(events, IsWarning) = 4

(* C9 *)

\* a step that enriches the candidate working[i + 1]
EnrichStep ==
    \/ variant = "app" /\ pc = "y_processing" /\ Resumed
    \/ variant = "cli" /\ pc = "cli_loop" /\ i < Len(working)

UsablePositions(dep) ==
    {k \in 1..Len(dep.w.commits) : UsableCommit(dep.w.commits[k])}

FirstUsable(dep) == CHOOSE k \in UsablePositions(dep) : \A j \in UsablePositions(dep) : k <= j

CommitScans == CallCount("repos.list_commits")

\* the email of the profile returned for dep, scanned as the scan reports
EmailAsClaimed(dep, profile, scans, looked) ==
    IF HasDeclaredEmail(dep)
    THEN profile.email = dep.w.declared /\ scans = 0
    ELSE IF dep.w.commitsOk /\ UsablePositions(dep) # {}
    THEN /\ profile.email = dep.w.commits[FirstUsable(dep)].email
         /\ scans = 1
         /\ looked = FirstUsable(dep)
    ELSE /\ profile.email \in {None, <<>>}
         /\ scans = 1

\* C9: the email of an enriched profile is the declared email when there is
\* one, and then the commits are not scanned; otherwise the first commit
\* author email, in list order, outside the relay domain, the scan stopping
\* there; and absent when there is none or the commit fetch fails.
C9_EmailFallback ==
    [][(EnrichStep /\ ~user_data'.absent)
       => EmailAsClaimed(working[i + 1], user_data', CommitScans' - CommitScans, scanned')]_vars

\* C9 for src/app.py alone
C9_EmailFallbackApp ==
    [][(EnrichStep /\ variant = "app" /\ ~user_data'.absent)
       => EmailAsClaimed(working[i + 1], user_data', CommitScans' - CommitScans, scanned')]_vars

(* C10 *)

\* the owner resolves and the repository metadata lookup fails
MetadataFails(dep) ==
    /\ dep.hasName
    /\ SeparatorCount(dep.name) = 1
    /\ dep.w.userOk
    /\ ~dep.w.repoOk

\* C10 as stated: when the owner resolves and the metadata lookup fails,
\* enrichment still returns a profile, with empty metadata.
C10_ProfileKeptWithoutMetadata ==
    [][(EnrichStep /\ MetadataFails(working[i + 1]))
       => (/\ ~user_data'.absent
           /\ user_data'.repo_description = None
           /\ user_data'.repo_language = None)]_vars

\* C10 amended: when the owner resolves and the metadata lookup fails,
\* enrichment returns absent.  It returns absent exactly for a name without
\* separator, an unresolvable owner or a failed metadata lookup, and a
\* profile it returns carries the metadata that was fetched.
C10_ProfileDroppedWithoutMetadata ==
    [][(/\ EnrichStep
        /\ working[i + 1].hasName
        /\ variant = "cli" => SeparatorCount(working[i + 1].name) = 1)
       => LET dep == working[i + 1]
          IN  /\ user_data'.absent <=> \/ SeparatorCount(dep.name) = 0
                                       \/ ~dep.w.userOk
                                       \/ ~dep.w.repoOk
              /\ ~user_data'.absent =>
                    /\ user_data'.repo_description = RepoMeta.description
                    /\ user_data'.repo_stars = RepoMeta.stargazers_count
                    /\ user_data'.repo_language = RepoMeta.language]_vars

\* the owner resolved, the metadata lookup was made and failed, and the
\* profile was dropped with a warning
C10_Witness ==
    /\ variant = "app"
    /\ pc = "y_warning"
    /\ MetadataFails(working[i + 1])
    /\ user_data.absent
    /\ Last(calls).op = "repos.get"
    /\ IsWarning(Last(events))
    /\ Last(events).warning.text = "Could not fetch user data"

(* C11 *)

\* the external lookup ran and failed: the process failed, its output was
\* not JSON or lacked the key, or the snapshot could not be written
ResolutionFailed == resolved.outcome \in ResolverOutcomes \ {"ok"}

ErrorCount == CountIf(events, IsError)

\* C11: when the dependents lookup fails in any of its ways, the resolver
\* returns the empty list and raises nothing, and the run goes on as with
\* zero dependents: no candidate, no result event, no row, no error event,
\* and the final status summary reports 0 processed.
C11_ResolutionFailureIsZeroDependents ==
    (variant = "app" /\ ResolutionFailed)
    => (/\ dependents = <<>>
        /\ working = <<>>
        /\ ResultCount = 0
        /\ RowsAppended = 0
        /\ ErrorCount = 0
        /\ pc \in {"y_found", "y_finished", "done", "closed"}
        /\ pc \in {"y_finished", "done"} =>
              (/\ FinalSummary(Last(events))
               /\ Last(events).status.count = 0
               /\ CountIf(events, FinalSummary) = 1))

\* the tool listed a dependent, the snapshot could not be written, and the
\* run ended with its summary of 0
C11_Witness ==
    /\ variant = "app"
    /\ pc = "done"
    /\ resolved.outcome = "snapshot_failed"
    /\ resolved.list # <<>>
    /\ dependents = <<>>
    /\ FinalSummary(Last(events))
    /\ Last(events).status.count = 0

(* C12 *)

\* C12: a named dependent whose name does not have exactly one separator is
\* dropped with a warning: enrichment returns absent for it, no external
\* call is made for it, and the run goes on.
C12_MalformedNameDropped ==
    [][(/\ EnrichStep
        /\ working[i + 1].hasName
        /\ SeparatorCount(working[i + 1].name) # 1)
       => (/\ user_data'.absent
           /\ calls' = calls
           /\ pc' \notin {"y_error", "crashed"}
           /\ variant = "app" => (IsWarning(Last(events')) /\ pc' = "y_warning"))]_vars

(* C13 *)

\* the loop has its working set
WorkingSetChosen ==
    \/ variant = "app" /\ pc \in {"y_warning", "y_processing", "y_result", "y_finished"}
    \/ variant = "cli" /\ pc = "cli_loop"

\* the first min(5, number found) dependents, in the resolver's order
IsOrderedPrefix(ws, list) ==
    /\ Len(ws) = (IF Len(list) < 5 THEN Len(list) ELSE 5)
    /\ \A k \in 1..Len(ws) : ws[k] = list[k]

\* min(5, number found) dependents taken from distinct places of the list
IsSelection(ws, list) ==
    /\ Len(ws) = (IF Len(list) < 5 THEN Len(list) ELSE 5)
    /\ \E f \in [1..Len(ws) -> 1..Len(list)] :
          /\ \A a, b \in 1..Len(ws) : a # b => f[a] # f[b]
          /\ \A k \in 1..Len(ws) : ws[k] = list[f[k]]

OwnerPart(dep) == SubSeq(dep.name, 1, FirstIndex(dep.name, "/") - 1)

\* the result event is the one of the dependent
ResultOf(e, dep) ==
    /\ IsResult(e)
    /\ e.user = OwnerPart(dep)
    /\ e.user \o <<"/">> \o e.repo = dep.name

\* the row is the one of the dependent
RowOf(row, dep) ==
    row[1] = (IF dep.w.displayName \in {None, <<>>} THEN OwnerPart(dep) ELSE dep.w.displayName)

\* Candidates are taken one after the other in the order of the working
\* set, and a step that emits a result event or appends a row emits or
\* appends the one of the candidate then being processed.
ProcessedInOrder ==
    /\ [][i' = i \/ i' = i + 1]_vars
    /\ [][(Len(events') = Len(events) + 1 /\ IsResult(Last(events')))
          => (i' = i /\ ResultOf(Last(events'), working[i + 1]))]_vars
    /\ [][(file.open /\ Len(file'.rows) = Len(file.rows) + 1)
          => (i' = i + 1 /\ RowOf(Last(file'.rows), working[i + 1]))]_vars

\* C13 as stated: the working set is the ordered prefix of the resolver's
\* list, the first min(5, number found) dependents in the resolver's order.
C13_WorkingSetIsOrderedPrefix ==
    WorkingSetChosen => IsOrderedPrefix(working, dependents)

\* C13 amended: in src/app.py the working set is the ordered prefix of the
\* resolver's list; in src/main.py it is min(5, number found) dependents
\* taken from distinct places of the list, in any order.  In both the
\* candidates are processed in the order of the working set, so result
\* events and rows follow that order.
C13_PrefixOrSample ==
    /\ [](WorkingSetChosen =>
            /\ variant = "app" => IsOrderedPrefix(working, dependents)
            /\ variant = "cli" => IsSelection(working, dependents))
    /\ ProcessedInOrder

\* main.py took the third dependent first and wrote its row before the row
\* of the first
C13_Witness ==
    /\ variant = "cli"
    /\ pc = "done"
    /\ dependents = <<OkDep, NoEmailDep, OkDepBob>>
    /\ working[1] = OkDepBob
    /\ working[2] = OkDep
    /\ Len(file.rows) = 3
    /\ RowOf(file.rows[2], OkDepBob)
    /\ ~RowOf(file.rows[2], OkDep)
    /\ RowOf(file.rows[3], OkDep)

(* C14 *)

\* the step appends one event to the stream
EmitsOne == Len(events') = Len(events) + 1 /\ SubSeq(events', 1, Len(events)) = events

GenerationWarning(e) == IsWarning(e) /\ e.warning.text = "Could not generate email"

\* the candidate reaches synthesis, the memory calls go through, and the
\* generation service raises or returns no text
SynthesisFails(dep) == ReachesSynthesis(dep) /\ dep.w.mem = "ok" /\ dep.w.gen # "text"

\* C14: for a recipient whose synthesis succeeds the result event comes
\* first, with the row and the delay still to come; the next step appends
\* the row and makes the courtesy delay, and only then takes the next
\* candidate.  A recipient that is skipped or whose synthesis fails gets a
\* warning and the loop goes on with no delay.  Delays and appended rows
\* are equal in number throughout, and equal to the result events when the
\* run reaches its final summary.
C14_CourtesyDelayOrder ==
    /\ [](variant = "app" =>
            /\ sleeps = RowsAppended
            /\ ResultCount - sleeps \in {0, 1}
            /\ pc \in {"y_warning", "y_processing", "y_finished"} => sleeps = ResultCount
            /\ (pc = "done" /\ FinalSummary(Last(events))) => sleeps = ResultCount)
    /\ [][(variant = "app" /\ EmitsOne /\ IsResult(Last(events')))
          => (/\ pc = "y_processing" /\ pc' = "y_result"
              /\ Succeeds(working[i + 1])
              /\ file' = file
              /\ sleeps' = sleeps)]_vars
    /\ [][(variant = "app" /\ pc = "y_result" /\ Resumed /\ pc' # "y_error")
          => (/\ Len(file'.rows) = Len(file.rows) + 1
              /\ sleeps' = sleeps + 1
              /\ i' = i + 1)]_vars
    /\ [][(/\ variant = "app" /\ pc = "y_processing" /\ Resumed
           /\ SeparatorCount(target_repo) = 1
           /\ SynthesisFails(working[i + 1]))
          => (/\ EmitsOne
              /\ GenerationWarning(Last(events'))
              /\ pc' = "y_warning")]_vars
    /\ [][(/\ variant = "app" /\ Resumed
           /\ pc \in {"y_found", "y_warning", "y_processing"}
           /\ pc = "y_warning" \/ pc' = "y_warning")
          => (sleeps' = sleeps /\ file' = file)]_vars

\* one recipient was synthesized and delayed for, the synthesis of another
\* failed with a warning, and the run reached its summary
C14_Witness ==
    /\ variant = "app"
    /\ pc = "done"
    /\ FinalSummary(Last(events))
    /\ ResultCount = 1
    /\ RowsAppended = 1
    /\ sleeps = 1
    /\ CountIf(events, GenerationWarning) = 1

(* C15 *)

\* the run is over: the generator returned or was closed by its consumer,
\* main returned or died of an exception, the trigger answered without a run
RunOver == pc \in {"done", "closed", "crashed", "responded"}

\* C15: a run opens emails.csv at most once, and has closed it in every
\* state in which the run is over, however it ended: by its final summary,
\* by an exception inside the loop, or by its consumer closing the stream
\* part-way.  The file is open only while the run is inside the with block.
C15_FileClosedOnEveryExit ==
    /\ file.opens <= 1
    /\ RunOver => ~file.open
    /\ file.open => (/\ file.opens = 1
                     /\ pc \in {"y_fetching", "y_found", "y_warning", "y_processing",
                                "y_result", "y_finished", "cli_loop"})

\* the consumer closed the stream right after a result event, the file was
\* open then and is closed now
C15_Witness ==
    /\ variant = "app"
    /\ pc = "closed"
    /\ IsResult(Last(events))
    /\ file.opens = 1
    /\ ~file.open

(* C16 *)

WriteFailure(e) == IsError(e) /\ "cause" \in DOMAIN e.error /\ e.error.cause = "writerow"

\* the row is complete and is the row of a result event of this run
CompleteRow(row) ==
    /\ Len(row) = Len(Header)
    /\ \E k \in 1..Len(events) :
          /\ IsResult(events[k])
          /\ row[2] = events[k].email_address
          /\ row[3] = events[k].email_body

\* C16: when an exception leaves the loop (the write of a row fails, or any
\* other failure nothing inside the loop catches), the step that fails
\* appends exactly one error event and closes the file without touching its
\* rows; the error event stays the only one and the last of the stream; and
\* the file holds the header and the complete rows written before the
\* failure: a row for every result event, but for the one whose write failed.
C16_LoopFailureOneErrorEvent ==
    /\ [][(variant = "app" /\ file.open /\ pc' = "y_error")
          => (/\ EmitsOne
              /\ IsError(Last(events'))
              /\ file'.rows = file.rows
              /\ ~file'.open)]_vars
    /\ [][(variant = "app" /\ pc = "y_error") => (events' = events /\ file' = file)]_vars
    /\ []((variant = "app" /\ file.opens = 1 /\ ErrorCount >= 1)
          => (/\ pc \in {"y_error", "done", "closed"}
              /\ ErrorCount = 1
              /\ IsError(Last(events))
              /\ ~file.open
              /\ file.rows[1] = Header
              /\ \A k \in 2..Len(file.rows) : CompleteRow(file.rows[k])
              /\ RowsAppended = (IF WriteFailure(Last(events)) THEN ResultCount - 1
                                                               ELSE ResultCount)))

\* the write of the second row failed: the stream ended with the error
\* event and the file holds the header and the first row
C16_Witness ==
    /\ variant = "app"
    /\ pc = "done"
    /\ WriteFailure(Last(events))
    /\ ErrorCount = 1
    /\ ResultCount = 2
    /\ Len(file.rows) = 2
    /\ CompleteRow(file.rows[2])
    /\ ~file.open

(* C17 *)

\* the request has no JSON object, or no repository field, or a field that
\* is not of the owner/repo shape
BadTrigger(req) ==
    \/ req.json # "object"
    \/ ~req.hasField
    \/ ~OwnerRepoShape(req.repository)

\* C17: a trigger request without a well-formed repository field is
\* answered with a JSON error object and a 4xx status, and no run starts:
\* no event, no opening of emails.csv, no external call.
C17_BadTriggerRejected ==
    (variant = "app" /\ request # NoRequest /\ pc # "request" /\ BadTrigger(request))
    => (/\ pc = "responded"
        /\ response.status \in 400..499
        /\ response.json
        /\ "error" \in DOMAIN response.body
        /\ events = <<>>
        /\ file.opens = 0
        /\ calls = <<>>)

(* C18 *)

\* C18: when the stream holds the final status summary, the count it
\* reports is the number of result events emitted before it, which is the
\* number of rows the run appended to emails.csv.
C18_SummaryCountsResultsAndRows ==
    (variant = "app" /\ events # <<>> /\ FinalSummary(Last(events)))
    => (/\ Last(events).status.count = ResultCount
        /\ ResultCount = RowsAppended
        /\ CountIf(events, FinalSummary) = 1)

\* a run of three candidates ended with a summary of 2: two results, two
\* rows and one warning
C18_Witness ==
    /\ variant = "app"
    /\ pc = "done"
    /\ Len(working) = 3
    /\ FinalSummary(Last(events))
    /\ Last(events).status.count = 2
    /\ ResultCount = 2
    /\ RowsAppended = 2
    /\ CountIf(events, IsWarning) = 1

(* C19 *)

\* a run is under way or over (the trigger did not refuse it)
RunStarted == pc \notin {"request", "responded", "start"}

NoEarlierRow == \A k \in 1..Len(file.rows) : file.rows[k] # StaleRow

\* C19 as stated: once a run has started, emails.csv holds the header
\* followed only by rows of that run: no row of an earlier run is left.
C19_StartedRunOwnsFile ==
    RunStarted => (/\ file.exists
                   /\ file.rows # <<>>
                   /\ file.rows[1] = Header
                   /\ NoEarlierRow)

\* C19 amended: the file is truncated and the header written when the run
\* opens it, which is after the pre-flight checks: from then on it holds
\* the header followed only by rows of this run.  A run that does not get
\* to open the file (a secret missing, a target without separator, the
\* open failing) leaves the file as the earlier runs left it.
C19_OpenedRunOwnsFile ==
    /\ [](file.opens >= 1 =>
            (/\ file.exists
             /\ file.rows[1] = Header
             /\ NoEarlierRow
             /\ Len(file.rows) - 1 <= 5
             /\ variant = "app" => \A k \in 2..Len(file.rows) : CompleteRow(file.rows[k])))
    /\ [][file'.opens = file.opens + 1
            => (file'.rows = <<Header>> /\ file'.lostRows = (Len(file.rows) > 1))]_vars
    /\ [][file'.opens = 0 => file' = file]_vars
    /\ []((RunStarted /\ (~AllSecretsPresent \/ SeparatorCount(target_repo) = 0))
            => file.opens = 0)

\* a later run discarded the header and the row of an earlier run and wrote
\* a row of its own
C19_Witness ==
    /\ pc = "done"
    /\ file.opens = 1
    /\ file.lostRows
    /\ Len(file.rows) = 2
    /\ file.rows[1] = Header
    /\ file.rows[2] # StaleRow

(* C20 *)

\* the place in calls of the last metadata fetch of the target
LastTargetGet ==
    CHOOSE g \in 1..Len(calls) :
        /\ calls[g].op = "target.repos.get"
        /\ \A h \in (g + 1)..Len(calls) : calls[h].op # "target.repos.get"

\* that fetch failed: the README fetch, which follows every fetch that
\* succeeds, did not follow it
TargetMetadataFailed ==
    \/ LastTargetGet = Len(calls)
    \/ calls[LastTargetGet + 1].op # "target.repos.get_readme"

Placeholders == {<<"No README available">>, <<"Could not extract features from README">>}

\* C20: the context built for the target always has a feature summary that
\* is a text, the summary the service wrote or a placeholder, together with
\* the real metadata; unless the metadata fetch failed, and then it is
\* all-default: zero stars, no topics, null language.
C20_TargetContextAlwaysComplete ==
    (variant = "app" /\ OwnerRepoShape(target_repo) /\ target_details.built)
    => IF TargetMetadataFailed
       THEN /\ target_details.stars = 0
            /\ target_details.topics = <<>>
            /\ target_details.language = None
       ELSE /\ target_details.stars = TargetMeta.stargazers_count
            /\ target_details.language = TargetMeta.language
            /\ target_details.readme # None
            /\ target_details.readme # <<>>
            /\ CallCount("target.generate_content") = 0 => target_details.readme \in Placeholders

(* C21 *)

MemoryOps == {"memory.add.system", "memory.add.context", "memory.search"}

\* the recipient a call was made for: the dependent repository fetched last
\* before it (every enrichment that reaches synthesis ends with that fetch)
RecipientAt(k) ==
    LET fetches == {g \in 1..k : calls[g].op = "repos.get"}
    IN  calls[CHOOSE g \in fetches : \A h \in fetches : h <= g].key

\* the memory calls made so far
MemoryCallPlaces == {k \in 1..Len(calls) : calls[k].op \in MemoryOps}

\* two memory calls that use one identity are calls for one recipient
IdentitySeparates ==
    \A a, b \in MemoryCallPlaces :
        calls[a].key = calls[b].key => RecipientAt(a) = RecipientAt(b)

\* C21: the memory identity separates recipients: the memory writes and the
\* recall made for one (username, repo_name) never use the identity used
\* for another, in particular not for another repository of the same user.
C21_MemoryIdentitySeparates ==
    IdentitySeparates

\* C21 for src/app.py alone
C21_MemoryIdentitySeparatesApp ==
    variant = "app" => IdentitySeparates

(* C22 *)

\* C22: in every state of a run the rows appended to emails.csv are at
\* most the result events emitted and at least that number less one; while
\* the generator is suspended at the yield of a result event that result
\* has no row yet; and when the consumer closes the stream there, the row
\* is never written: the recipient is left with a result event and no row.
C22_RowsTrailResultsByOne ==
    /\ [](variant = "app" =>
            /\ RowsAppended <= ResultCount
            /\ ResultCount <= RowsAppended + 1
            /\ file.opens = 0 => ResultCount = 0
            /\ pc = "y_result" => (IsResult(Last(events)) /\ ResultCount = RowsAppended + 1))
    /\ [][(variant = "app" /\ pc = "y_result" /\ pc' = "closed")
          => (/\ events' = events
              /\ file'.rows = file.rows
              /\ ~file'.open
              /\ ResultCount' = RowsAppended' + 1)]_vars
    /\ [][(variant = "app" /\ pc = "closed") => (file' = file /\ events' = events)]_vars

\* the consumer closed the stream right after the second result event: two
\* result events, one row
C22_Witness ==
    /\ variant = "app"
    /\ pc = "closed"
    /\ IsResult(Last(events))
    /\ ResultCount = 2
    /\ RowsAppended = 1
    /\ Len(file.rows) = 2

(* C23 *)

OpenHandles == {r \in Runs : overlap[r].pc = "open"}

\* the lines run r has written through its handle, in order
LinesOf(r) == [k \in 1..overlap[r].pos |-> IF k = 1 THEN Header ELSE OverlapRow(r, k - 1)]

\* the file holds what run r wrote, where it wrote it
Intact(r) ==
    /\ Len(file.rows) >= overlap[r].pos
    /\ \A k \in 1..overlap[r].pos : file.rows[k] = LinesOf(r)[k]

\* C23: emails.csv is held for exclusive write: of two runs that overlap at
\* most one has the file open at any time, and while a run has the file
\* open what it wrote is not truncated or overwritten by the other.
C23_ExclusiveWrite ==
    /\ Cardinality(OpenHandles) <= 1
    /\ \A r \in OpenHandles : Intact(r)

====
